---- MODULE Spec2Model ----
(***************************************************************************)
(* Model of id3.py: the ID3 decision tree builder (id3 / id3_helper) and   *)
(* the query operations of ID3DecisionTree (__call__, validate,            *)
(* get_inputs_for_output) and ID3DecisionTreeNode.get_subnode_for_input.   *)
(*                                                                         *)
(* A Python dict is a sequence of <<key, value>> pairs with distinct keys, *)
(* in insertion order; dict equality ignores the order.  The tree is kept  *)
(* flat: a map from the path of (attribute, value) choices leading to a    *)
(* position, to the node or terminal at that position.  The recursion of   *)
(* id3_helper is a stack of pending calls, taken depth first.              *)
(***************************************************************************)
EXTENDS Integers, Sequences, FiniteSets, TLC

\* ---------------------------------------------------------------- bounds
MaxExemplars == 3
MaxMixed == 2
Attrs == {"x1", "x2"}
Values == {0, 1}
Outputs == {0, 1}
\* a value no exemplar uses, for queries with an unknown attribute value
QueryValues == Values \cup {2}

\* ---------------------------------------------------------------- dicts
\* every sequence that lists the elements of S once: the orders in which
\* an unordered Python set (or the keys of a dict) may be traversed
SetOrders(S) ==
    {s \in [1..Cardinality(S) -> S] :
        \A i, j \in 1..Cardinality(S) : i # j => s[i] # s[j]}

Keys(d) == [i \in 1..Len(d) |-> d[i][1]]
KeySet(d) == {d[i][1] : i \in 1..Len(d)}
Items(d) == {d[i] : i \in 1..Len(d)}
\* d1 == d2 on dicts: same keys with the same values, whatever the order
DictEq(d1, d2) == Items(d1) = Items(d2)

\* inputs[attr] answered without the missing-key check (a mutation of Subscript)
SubscriptDefault(d, k) ==
    IF k \in KeySet(d)
    THEN [ok |-> TRUE, val |-> d[CHOOSE i \in 1..Len(d) : d[i][1] = k][2]]
    ELSE [ok |-> TRUE, val |-> 0]

\* inputs[attr]: the value, or ok = FALSE where Python raises KeyError
Subscript(d, k) ==
    IF k \in KeySet(d)
    THEN [ok |-> TRUE, val |-> d[CHOOSE i \in 1..Len(d) : d[i][1] = k][2]]
    ELSE [ok |-> FALSE, val |-> 0]

\* inputs.pop(attr) removing every key (a mutation of Pop)
PopAll(d, k) == <<>>

\* inputs.pop(attr): the dict without the key, the other keys in order
Pop(d, k) == SelectSeq(d, LAMBDA p : p[1] # k)

\* input[name] = value: overwrite in place, or insert at the end
SetItem(d, k, v) ==
    IF k \in KeySet(d)
    THEN [i \in 1..Len(d) |-> IF d[i][1] = k THEN <<k, v>> ELSE d[i]]
    ELSE Append(d, <<k, v>>)

DictsOver(ks, vals) ==
    {[i \in 1..Len(ks) |-> <<ks[i], vs[i]>>] : vs \in [1..Len(ks) -> vals]}
\* dicts over any subset of Attrs, in any key order
AnyDicts ==
    UNION {DictsOver(ks, Values) : ks \in UNION {SetOrders(S) : S \in SUBSET Attrs}}
SeqsUpTo(S, n) == UNION {[1..k -> S] : k \in 0..n}
\* the queries: all attribute names present, values possibly unseen
Queries == DictsOver(CHOOSE ks \in SetOrders(Attrs) : TRUE, QueryValues)

\* ---------------------------------------------------------------- state
VARIABLES
    exemplars,  \* the caller's exemplar sequence: records [inputs, output]
    stack,      \* pending id3_helper calls, next first: [path, exs]
    calls,      \* history: path |-> the partition id3_helper received there
    tree,       \* path |-> node or terminal built at that position
    pc,         \* "idle", "building", "built" (id3 returned) or "raised"
    error,      \* the exception id3 raised, "" if none
    last        \* the last query operation on the built tree and its result
vars == <<exemplars, stack, calls, tree, pc, error, last>>

NoneLeaf == [kind |-> "none", name |-> "", values |-> <<>>, out |-> 0]
Leaf(o) == [kind |-> "leaf", name |-> "", values |-> <<>>, out |-> o]
Node(a, vs) == [kind |-> "node", name |-> a, values |-> vs, out |-> 0]
EmptyMap == [p \in {} |-> NoneLeaf]

\* ---------------------------------------------------------------- id3_helper
OutputSet(exs) == {exs[i].output : i \in 1..Len(exs)}
OutputsOf(exs) == [i \in 1..Len(exs) |-> exs[i].output]
Count(outputs, o) == Cardinality({i \in 1..Len(outputs) : outputs[i] = o})

\* the all-same check short-circuited to "yes" (a mutation of InputsAllSame)
InputsAllSameAlways(exs) == TRUE

InputsAllSame(exs) ==
    \A i, j \in 1..Len(exs) : DictEq(exs[i].inputs, exs[j].inputs)

RECURSIVE MostCommonFrom(_, _, _, _)
MostCommonFrom(outputs, order, i, best) ==
    IF i > Len(order) THEN best.most_common
    ELSE LET count == Count(outputs, order[i])
         IN  MostCommonFrom(outputs, order, i + 1,
                IF count > best.most_common_count
                THEN [most_common |-> Leaf(order[i]), most_common_count |-> count]
                ELSE best)

\* the vote keeping the rarest output (a mutation of MostCommon)
LeastCommon(outputs, order) ==
    Leaf(CHOOSE o \in {order[i] : i \in 1..Len(order)} :
            \A i \in 1..Len(order) : Count(outputs, o) <= Count(outputs, order[i]))

\* the majority vote; order is the traversal order of set(outputs)
MostCommon(outputs, order) ==
    MostCommonFrom(outputs, order, 1,
                   [most_common |-> NoneLeaf, most_common_count |-> 0])

\* a group for every value an attribute may take, seen in the partition or
\* not (a mutation of AttrValues)
AttrValuesAll(exs, attr) == QueryValues

AttrValues(exs, attr) ==
    {Subscript(exs[i].inputs, attr).val : i \in 1..Len(exs)}

\* the assignment handed on without a copy (a mutation of DictCopy)
DictAlias(obj) == obj

\* dict(inputs) is a new object: 0, none of the caller's dicts 1..n
DictCopy(obj) == 0

\* the exemplars of one group, each with a copy of its inputs less attr
Partition(exs, attr, attr_value) ==
    LET idx == SelectSeq([i \in 1..Len(exs) |-> i],
                 LAMBDA i : Subscript(exs[i].inputs, attr).val = attr_value)
    IN  [k \in 1..Len(idx) |->
            [inputs |-> Pop(exs[idx[k]].inputs, attr),
             output |-> exs[idx[k]].output,
             obj    |-> DictCopy(exs[idx[k]].obj)]]

RECURSIVE Pow(_, _)
Pow(b, e) == IF e = 0 THEN 1 ELSE b * Pow(b, e - 1)

RECURSIVE ProdOver(_)
\* the product of the values of the function F
ProdOver(F) ==
    IF DOMAIN F = {} THEN 1
    ELSE LET x == CHOOSE y \in DOMAIN F : TRUE
         IN  F[x] * ProdOver([y \in DOMAIN F \ {x} |-> F[y]])

\* attr_entropy, held exactly: 2^attr_entropy = num / den, since
\* -sum c*log2(c/n) = log2(prod n^n / prod c^c)
AttrEntropy(exs, attr) ==
    LET GroupNum(v) == LET n == Len(Partition(exs, attr, v)) IN Pow(n, n)
        GroupDen(v) ==
            LET outputs == OutputsOf(Partition(exs, attr, v))
            IN  ProdOver([o \in {outputs[i] : i \in 1..Len(outputs)} |->
                            Pow(Count(outputs, o), Count(outputs, o))])
    IN  [num |-> ProdOver([v \in AttrValues(exs, attr) |-> GroupNum(v)]),
         den |-> ProdOver([v \in AttrValues(exs, attr) |-> GroupDen(v)])]

\* e1 < e2 on entropies (log2 is increasing)
EntropyLess(e1, e2) == e1.num * e2.den < e2.num * e1.den

\* an attribute replaces the best on a tie too (a mutation of Better)
BetterOrEqual(best_attr, attr_entropy) ==
    best_attr.none \/ ~EntropyLess(best_attr.entropy, attr_entropy)

\* not best_attr or (attr_entropy < best_attr['entropy'])
Better(best_attr, attr_entropy) ==
    best_attr.none \/ EntropyLess(attr_entropy, best_attr.entropy)

RECURSIVE BestAttrFrom(_, _, _, _)
BestAttrFrom(exs, attrs, i, best_attr) ==
    IF i > Len(attrs) THEN best_attr
    ELSE LET attr_entropy == AttrEntropy(exs, attrs[i])
         IN  BestAttrFrom(exs, attrs, i + 1,
                IF Better(best_attr, attr_entropy)
                THEN [none |-> FALSE, attr |-> attrs[i], entropy |-> attr_entropy]
                ELSE best_attr)

\* the loop over exemplars[0][0].keys()
BestAttr(exs) ==
    BestAttrFrom(exs, Keys(exs[1].inputs), 1,
                 [none |-> TRUE, attr |-> "", entropy |-> [num |-> 1, den |-> 1]])

\* the call reaches attribute selection
Selects(exs) == Cardinality(OutputSet(exs)) > 1 /\ ~InputsAllSame(exs)

\* inputs[attr] fails for an attribute of the first exemplar
LookupFails(exs) ==
    \E a \in KeySet(exs[1].inputs) :
        \E i \in 1..Len(exs) : ~Subscript(exs[i].inputs, a).ok

RECURSIVE PopEach(_, _, _)
PopEach(d, attrs, i) ==
    IF i > Len(attrs) THEN d ELSE PopEach(Pop(d, attrs[i]), attrs, i + 1)

\* what the pops of the partitioning loops do to the caller's own dicts:
\* a pop on object k > 0 removes the key from the caller's k-th assignment
AfterPops(mem, exs) ==
    [k \in 1..Len(mem) |->
        IF \E i \in 1..Len(exs) : DictCopy(exs[i].obj) = k
        THEN [inputs |-> PopEach(mem[k].inputs, Keys(exs[1].inputs), 1),
              output |-> mem[k].output]
        ELSE mem[k]]

\* the subnode's position for value v under the node at path p
Child(p, name, v) == Append(p, <<name, v>>)

\* id3_helper returns a terminal: back in the caller, or id3 returns the tree
Return(f, node) ==
    /\ tree' = (f.path :> node) @@ tree
    /\ calls' = (f.path :> f.exs) @@ calls
    /\ stack' = Tail(stack)
    /\ pc' = IF Tail(stack) = <<>> THEN "built" ELSE "building"
    /\ UNCHANGED <<exemplars, error, last>>

\* the exception leaves id3_helper and id3: no tree
Raise(f, e) ==
    /\ calls' = (f.path :> f.exs) @@ calls
    /\ stack' = <<>>
    /\ pc' = "raised"
    /\ error' = e
    /\ exemplars' = AfterPops(exemplars, f.exs)
    /\ UNCHANGED <<tree, last>>

\* len(output_set) == 0: return None
HelperEmpty ==
    /\ pc = "building"
    /\ OutputSet(Head(stack).exs) = {}
    /\ Return(Head(stack), NoneLeaf)

\* len(output_set) == 1: return exemplars[0][1]
HelperPure ==
    /\ pc = "building"
    /\ Cardinality(OutputSet(Head(stack).exs)) = 1
    /\ Return(Head(stack), Leaf(Head(stack).exs[1].output))

\* inputs_all_same: return the most common output
HelperMajority ==
    /\ pc = "building"
    /\ Cardinality(OutputSet(Head(stack).exs)) > 1
    /\ InputsAllSame(Head(stack).exs)
    /\ \E order \in SetOrders(OutputSet(Head(stack).exs)) :
          Return(Head(stack), MostCommon(OutputsOf(Head(stack).exs), order))

\* attribute selection hits an exemplar without the attribute: KeyError
HelperKeyError ==
    /\ pc = "building"
    /\ Selects(Head(stack).exs)
    /\ LookupFails(Head(stack).exs)
    /\ Raise(Head(stack), "KeyError")

\* the first exemplar has no attribute: best_attr stays None, and
\* best_attr['partitions'] raises TypeError
HelperTypeError ==
    /\ pc = "building"
    /\ Selects(Head(stack).exs)
    /\ ~LookupFails(Head(stack).exs)
    /\ BestAttr(Head(stack).exs).none
    /\ Raise(Head(stack), "TypeError")

\* attribute selection, then one recursive call per group of the best
\* attribute, in the traversal order of its partitions dict.  The node is
\* entered in the tree with its ordered values at once; its subnodes follow
\* as the recursive calls return.
HelperSplit ==
    /\ pc = "building"
    /\ Selects(Head(stack).exs)
    /\ ~LookupFails(Head(stack).exs)
    /\ ~BestAttr(Head(stack).exs).none
    /\ LET f == Head(stack)
           attr == BestAttr(f.exs).attr
       IN  \E order \in SetOrders(AttrValues(f.exs, attr)) :
              /\ tree' = (f.path :> Node(attr, order)) @@ tree
              /\ calls' = (f.path :> f.exs) @@ calls
              /\ stack' = [k \in 1..Len(order) |->
                              [path |-> Child(f.path, attr, order[k]),
                               exs  |-> Partition(f.exs, attr, order[k])]]
                          \o Tail(stack)
              /\ exemplars' = AfterPops(exemplars, f.exs)
              /\ UNCHANGED <<pc, error, last>>

\* ---------------------------------------------------------------- queries
\* the first pair's subnode whatever the input (a mutation of
\* GetSubnodeForInput)
GetSubnodeFirst(T, p, input) ==
    [found |-> TRUE, at |-> Child(p, T[p].name, T[p].values[1])]

\* get_subnode_for_input: the subnode of the first pair whose value equals
\* the input, or None
GetSubnodeForInput(T, p, input) ==
    IF \E i \in 1..Len(T[p].values) : T[p].values[i] = input
    THEN LET i == CHOOSE k \in 1..Len(T[p].values) :
                     /\ T[p].values[k] = input
                     /\ \A j \in 1..(k - 1) : T[p].values[j] # input
         IN  [found |-> TRUE, at |-> Child(p, T[p].name, T[p].values[i])]
    ELSE [found |-> FALSE, at |-> <<>>]

RECURSIVE CallFrom(_, _, _)
CallFrom(T, p, inputs) ==
    IF T[p].kind # "node" THEN [kind |-> T[p].kind, out |-> T[p].out]
    ELSE LET v == Subscript(inputs, T[p].name)
         IN  IF ~v.ok THEN [kind |-> "KeyError", out |-> 0]
             ELSE LET sub == GetSubnodeForInput(T, p, v.val)
                  IN  IF sub.found THEN CallFrom(T, sub.at, inputs)
                      ELSE [kind |-> "none", out |-> 0]

\* ID3DecisionTree.__call__
Call(T, inputs) == CallFrom(T, <<>>, inputs)

RECURSIVE ValidateFrom(_, _, _)
ValidateFrom(T, exs, i) ==
    IF i > Len(exs) THEN "True"
    ELSE LET r == Call(T, exs[i].inputs)
         IN  IF r.kind = "KeyError" THEN "KeyError"
             ELSE IF ~(r.kind = "leaf" /\ r.out = exs[i].output) THEN "False"
             ELSE ValidateFrom(T, exs, i + 1)

\* validate looking at the first exemplar only (a mutation of Validate)
ValidateFirst(T, exs) ==
    IF exs = <<>> THEN "True" ELSE ValidateFrom(T, <<exs[1]>>, 1)

\* ID3DecisionTree.validate
Validate(T, exs) == ValidateFrom(T, exs, 1)

\* every terminal counts as a match (a mutation of Matches)
MatchesAny(subnode, output) == TRUE

\* subnode == output
Matches(subnode, output) == [kind |-> subnode.kind, out |-> subnode.out] = output

RECURSIVE GetInputs(_, _, _, _, _, _)
\* get_inputs, from the i-th pair of the node at p on: input is the dict
\* being filled in, inputs the list of results so far
GetInputs(T, p, output, input, inputs, i) ==
    IF i > Len(T[p].values) THEN inputs
    ELSE LET input1 == SetItem(input, T[p].name, T[p].values[i])
             sub == Child(p, T[p].name, T[p].values[i])
         IN  GetInputs(T, p, output, input1,
                 IF T[sub].kind = "node"
                 THEN GetInputs(T, sub, output, input1, inputs, 1)
                 ELSE IF Matches(T[sub], output)
                      THEN Append(inputs, input1)
                      ELSE inputs,
                 i + 1)

\* ID3DecisionTree.get_inputs_for_output
GetInputsForOutput(T, output) ==
    IF T[<<>>].kind # "node" THEN <<>>
    ELSE GetInputs(T, <<>>, output, <<>>, <<>>, 1)

\* ---------------------------------------------------------------- actions
\* The queries only read the tree, so a run makes one query of it.
\* id3_tree(inputs)
DoCall ==
    /\ pc = "built"
    /\ last.op = "none"
    /\ \E q \in Queries :
          last' = [op |-> "call", inputs |-> q, ret |-> Call(tree, q)]
    /\ UNCHANGED <<exemplars, stack, calls, tree, pc, error>>

\* id3_tree.validate(exemplars)
DoValidate ==
    /\ pc = "built"
    /\ last.op = "none"
    /\ last' = [op |-> "validate", ret |-> Validate(tree, exemplars)]
    /\ UNCHANGED <<exemplars, stack, calls, tree, pc, error>>

\* id3_tree.get_inputs_for_output(output)
DoGetInputsForOutput ==
    /\ pc = "built"
    /\ last.op = "none"
    /\ \E o \in {Leaf(x) : x \in Outputs} \cup {NoneLeaf} :
          last' = [op |-> "invert",
                   output |-> [kind |-> o.kind, out |-> o.out],
                   ret |-> GetInputsForOutput(tree, [kind |-> o.kind, out |-> o.out])]
    /\ UNCHANGED <<exemplars, stack, calls, tree, pc, error>>

\* the exemplars as id3 receives them: the caller's own objects 1..n
RootCall(exs) ==
    [path |-> <<>>,
     exs  |-> [i \in 1..Len(exs) |->
                 [inputs |-> exs[i].inputs, output |-> exs[i].output, obj |-> i]]]

\* exemplars over all of Attrs, the assignments written in one key order
CommonInputs ==
    UNION {SeqsUpTo([inputs : DictsOver(ks, Values), output : Outputs], MaxExemplars) :
              ks \in SetOrders(Attrs)}
\* exemplars over any attribute names, each assignment in any key order
MixedInputs ==
    SeqsUpTo([inputs : AnyDicts, output : Outputs], MaxMixed)
\* the exemplars of the docstring: the 2-input logical OR
DocExample ==
    <<[inputs |-> <<<<"x1", 0>>, <<"x2", 0>>>>, output |-> 0],
      [inputs |-> <<<<"x1", 0>>, <<"x2", 1>>>>, output |-> 1],
      [inputs |-> <<<<"x1", 1>>, <<"x2", 0>>>>, output |-> 1],
      [inputs |-> <<<<"x1", 1>>, <<"x2", 1>>>>, output |-> 1]>>

\* the caller holds no exemplars yet
Init ==
    /\ exemplars = <<>>
    /\ stack = <<>>
    /\ calls = EmptyMap
    /\ tree = EmptyMap
    /\ pc = "idle"
    /\ error = ""
    /\ last = [op |-> "none"]

\* the caller makes its exemplars and calls id3(exemplars)
Id3 ==
    /\ pc = "idle"
    /\ \E exs \in CommonInputs \cup MixedInputs \cup {DocExample} :
          /\ exemplars' = exs
          /\ stack' = <<RootCall(exs)>>
    /\ pc' = "building"
    /\ UNCHANGED <<calls, tree, error, last>>

\* one step of id3: the pending id3_helper call runs
Builder ==
    \/ HelperEmpty
    \/ HelperPure
    \/ HelperMajority
    \/ HelperKeyError
    \/ HelperTypeError
    \/ HelperSplit

Next ==
    \/ Id3
    \/ Builder
    \/ DoCall
    \/ DoValidate
    \/ DoGetInputsForOutput

\* id3(exemplars), then a query of the tree
Spec == Init /\ [][Next]_vars
\* id3(exemplars) alone
BuildSpec == Init /\ [][Id3 \/ Builder]_vars

\* ---------------------------------------------------------------- properties
Done == pc \in {"built", "raised"}
\* all assignments are over the same attribute names
CommonAttrs(exs) ==
    \A i, j \in 1..Len(exs) : KeySet(exs[i].inputs) = KeySet(exs[j].inputs)
\* every distinct assignment is paired with exactly one output
Consistent(exs) ==
    \A i, j \in 1..Len(exs) :
        DictEq(exs[i].inputs, exs[j].inputs) => exs[i].output = exs[j].output
\* the assignment carries the attribute-value choices of the path
Agrees(inputs, p) ==
    \A k \in 1..Len(p) : Subscript(inputs, p[k][1]) = [ok |-> TRUE, val |-> p[k][2]]
NoneResult == [kind |-> "none", out |-> 0]

\* C1: over a common attribute-name set and with one output per distinct
\* assignment, id3 returns a tree and validate of it against the same
\* exemplars is True.
C1_ConsistentValidates ==
    (CommonAttrs(exemplars) /\ Consistent(exemplars)) =>
        /\ Done => pc = "built"
        /\ last.op = "validate" => last.ret = "True"
\* validate has run on a two-level tree built from consistent exemplars
C1_Witness ==
    /\ last.op = "validate"
    /\ CommonAttrs(exemplars) /\ Consistent(exemplars)
    /\ \E p \in DOMAIN tree : Len(p) = 1 /\ tree[p].kind = "node"
    /\ last.ret = "True"

\* C2: over a common attribute-name set, two exemplars with equal
\* assignments and different outputs never make id3 raise, and validate of
\* the tree against the same exemplars is False.
C2_ConflictInvalid ==
    (CommonAttrs(exemplars) /\ ~Consistent(exemplars)) =>
        /\ Done => pc = "built"
        /\ last.op = "validate" => last.ret = "False"
\* validate has run on a tree with an internal node built from conflicting
\* exemplars
C2_Witness ==
    /\ last.op = "validate"
    /\ CommonAttrs(exemplars) /\ ~Consistent(exemplars)
    /\ tree[<<>>].kind = "node"
    /\ last.ret = "False"

\* the queries that extend assignment a with any values for the names it omits
Extensions(a) == {q \in Queries : \A k \in 1..Len(a) : a[k] \in Items(q)}

\* C3: every assignment returned by get_inputs_for_output(o), extended with
\* arbitrary values for the attribute names it omits, is answered o by the tree.
C3_InvertInfer ==
    last.op = "invert" =>
        \A k \in 1..Len(last.ret) :
            \A q \in Extensions(last.ret[k]) : Call(tree, q) = last.output
\* the inverse query returned a full assignment and one that omits a name
C3_Witness ==
    /\ last.op = "invert"
    /\ \E k \in 1..Len(last.ret) : Len(last.ret[k]) = Cardinality(Attrs)
    /\ \E k \in 1..Len(last.ret) : Len(last.ret[k]) < Cardinality(Attrs)

\* C4 as claimed: whenever the assignments do not all have the same
\* attribute names, id3 raises a lookup failure.
C4_Original ==
    (Done /\ ~CommonAttrs(exemplars)) => (pc = "raised" /\ error = "KeyError")
\* some exemplar lacks an attribute name of the first exemplar
LacksNameOfFirst(exs) ==
    \E i \in 1..Len(exs) : ~(KeySet(exs[1].inputs) \subseteq KeySet(exs[i].inputs))
\* C4 as amended: with at least two distinct outputs and an exemplar that
\* lacks an attribute name of the first exemplar, id3 raises KeyError and
\* returns no tree.
C4_Amended ==
    (Done /\ Cardinality({exemplars[i].output : i \in 1..Len(exemplars)}) >= 2
          /\ LacksNameOfFirst(exemplars))
        => (pc = "raised" /\ error = "KeyError" /\ tree = EmptyMap)
\* id3 raised KeyError at its first attribute selection
C4_Witness ==
    /\ pc = "raised" /\ error = "KeyError"
    /\ Cardinality({exemplars[i].output : i \in 1..Len(exemplars)}) >= 2
    /\ LacksNameOfFirst(exemplars)

\* the traversal for q reaches a node whose attribute q gives a value that
\* none of the node's pairs records
UnknownAt(T, q, p) ==
    /\ T[p].kind = "node"
    /\ Agrees(q, p)
    /\ Subscript(q, T[p].name).ok
    /\ \A i \in 1..Len(T[p].values) : T[p].values[i] # Subscript(q, T[p].name).val

\* C5: a query whose traversal reaches a node with a value that matches
\* none of the node's branch values is answered None, without an error.
C5_UnknownValueNone ==
    last.op = "call" =>
        ((\E p \in DOMAIN tree : UnknownAt(tree, last.inputs, p))
            => last.ret = NoneResult)
\* the unknown value was met below the root
C5_Witness ==
    /\ last.op = "call"
    /\ \E p \in DOMAIN tree : Len(p) = 1 /\ UnknownAt(tree, last.inputs, p)
    /\ last.ret = NoneResult

\* C6: no step of id3 changes the caller's exemplars.
C6_ExemplarsUnchanged == [][pc = "building" => exemplars' = exemplars]_vars
\* id3 has partitioned twice and returned
C6_Witness ==
    /\ pc = "built"
    /\ \E p \in DOMAIN tree : Len(p) = 1 /\ tree[p].kind = "node"
    /\ \A i \in 1..Len(exemplars) : Len(exemplars[i].inputs) = Cardinality(Attrs)

NamesOf(exs) == UNION {KeySet(exs[i].inputs) : i \in 1..Len(exs)}
\* the call at path p received exemplars with exactly the caller's attribute
\* names less the one the caller split on
OneNameFewer(p, exs) ==
    p # <<>> =>
        LET caller == calls[SubSeq(p, 1, Len(p) - 1)]
        IN  \A i \in 1..Len(exs) : \A j \in 1..Len(caller) :
                /\ KeySet(exs[i].inputs) = KeySet(caller[j].inputs) \ {p[Len(p)][1]}
                /\ Cardinality(KeySet(exs[i].inputs))
                     = Cardinality(KeySet(caller[j].inputs)) - 1
DepthBounded ==
    CommonAttrs(exemplars) =>
        /\ \A k \in 1..Len(stack) :
              /\ Len(stack[k].path) <= Cardinality(NamesOf(exemplars))
              /\ OneNameFewer(stack[k].path, stack[k].exs)
        /\ \A p \in DOMAIN calls :
              /\ Len(p) <= Cardinality(NamesOf(exemplars))
              /\ OneNameFewer(p, calls[p])
        /\ \A p \in DOMAIN tree : Len(p) <= Cardinality(NamesOf(exemplars))
\* the pending work: a call over n exemplars with a attribute names left
\* weighs (n0 + 1)^a, n0 the number of exemplars id3 was given; a split
\* replaces a call by at most n0 calls with one name fewer each
Rank ==
    LET Weight(k) ==
            Pow(Len(exemplars) + 1, Cardinality(NamesOf(stack[k].exs)))
        SumTo[k \in 0..Len(stack)] ==
            IF k = 0 THEN 0 ELSE SumTo[k - 1] + Weight(k)
    IN  SumTo[Len(stack)]
\* C7: over a common attribute-name set id3 terminates (every id3_helper
\* call strictly lowers the natural number Rank of the pending work), every
\* recursive call receives exemplars with exactly one attribute name fewer
\* than its caller, and the depth of the recursion and of the tree is at
\* most the number of distinct attribute names.
C7_TerminatesDepthBounded ==
    /\ []DepthBounded
    /\ [][(pc = "building" /\ CommonAttrs(exemplars)) => (Rank' < Rank /\ Rank' >= 0)]_vars
\* a call at the greatest depth has returned
C7_Witness ==
    /\ pc = "built"
    /\ CommonAttrs(exemplars)
    /\ \E p \in DOMAIN calls : Len(p) = Cardinality(Attrs)

\* the position of attribute a in the key order ks
IndexOf(ks, a) == CHOOSE i \in 1..Len(ks) : ks[i] = a
\* C8: the attribute of every node has the smallest entropy score among the
\* attribute names of the partition, and is the first such attribute in the
\* key order of the partition's first exemplar.
C8_BestAttribute ==
    \A p \in DOMAIN tree :
        tree[p].kind = "node" =>
            LET exs == calls[p]
                ks == Keys(exs[1].inputs)
                chosen == AttrEntropy(exs, tree[p].name)
            IN  /\ tree[p].name \in KeySet(exs[1].inputs)
                /\ \A j \in 1..Len(ks) :
                      /\ ~EntropyLess(AttrEntropy(exs, ks[j]), chosen)
                      /\ j < IndexOf(ks, tree[p].name)
                            => EntropyLess(chosen, AttrEntropy(exs, ks[j]))
\* a node was given an attribute that is not the first key: its score is
\* strictly smaller than the first key's
C8_Witness ==
    /\ pc = "built"
    /\ \E p \in DOMAIN tree :
          /\ tree[p].kind = "node"
          /\ Len(calls[p][1].inputs) = Cardinality(Attrs)
          /\ tree[p].name # calls[p][1].inputs[1][1]

\* the call at p ended in the exhausted-attributes base case
MajorityCase(p) ==
    /\ Cardinality(OutputSet(calls[p])) >= 2
    /\ \A i, j \in 1..Len(calls[p]) :
          DictEq(calls[p][i].inputs, calls[p][j].inputs)
\* C9: in the exhausted-attributes base case the call returns an output of
\* the partition that occurs at least as often as every other output.
C9_MajorityVote ==
    \A p \in DOMAIN tree :
        MajorityCase(p) =>
            /\ tree[p].kind = "leaf"
            /\ tree[p].out \in OutputSet(calls[p])
            /\ \A o \in OutputSet(calls[p]) :
                  Count(OutputsOf(calls[p]), tree[p].out)
                      >= Count(OutputsOf(calls[p]), o)
\* a vote was won by a strict majority
C9_Witness ==
    \E p \in DOMAIN tree :
        /\ MajorityCase(p)
        /\ \E o \in OutputSet(calls[p]) :
              Count(OutputsOf(calls[p]), tree[p].out) > Count(OutputsOf(calls[p]), o)

\* C10: from a non-empty exemplar sequence over a common attribute-name
\* set, no recursive call receives an empty partition, and every terminal
\* is the output of a training exemplar that agrees with the path to it.
C10_NoEmptyPartition ==
    (exemplars # <<>> /\ CommonAttrs(exemplars)) =>
        /\ \A k \in 1..Len(stack) : stack[k].exs # <<>>
        /\ \A p \in DOMAIN calls : calls[p] # <<>>
        /\ \A p \in DOMAIN tree :
              /\ tree[p].kind # "none"
              /\ tree[p].kind = "leaf" =>
                    \E i \in 1..Len(exemplars) :
                        /\ exemplars[i].output = tree[p].out
                        /\ Agrees(exemplars[i].inputs, p)
\* a terminal two levels down
C10_Witness ==
    /\ pc = "built"
    /\ exemplars # <<>> /\ CommonAttrs(exemplars)
    /\ \E p \in DOMAIN tree : Len(p) = Cardinality(Attrs) /\ tree[p].kind = "leaf"
====
